---- MODULE Spec2Model ----
(***************************************************************************)
(* A model of vexp (kr/vexp, main.go): the package loader with its cache   *)
(* and import stack, vendor-path expansion, and dependency aggregation.    *)
(*                                                                         *)
(* Paths.  An import path or a directory is a sequence of path segments    *)
(* (<<"p","vendor","d">> is p/vendor/d; <<>> is the empty string).  Byte   *)
(* lengths and byte order of the strings are kept through StrLen and       *)
(* SegOrder, so that the arithmetic of vendoredImportPath and the string   *)
(* comparisons of the sorts are those of the Go code.                      *)
(***************************************************************************)
EXTENDS Naturals, Integers, Sequences, FiniteSets, TLC

(***************************************************************************)
(* Bounds of the model.                                                    *)
(***************************************************************************)
\* the number of import statements on disk, all packages together
MaxImports == 3
\* the number of directory levels of the parent below <root>/src, in VendorSpec
MaxDepth == 2

(***************************************************************************)
(* Strings.                                                                *)
(***************************************************************************)
\* every path segment of the model, in Go's string order (bytewise)
SegOrder == <<".", "C", "D", "d", "dx", "go", "m", "p", "q", "s", "src", "t", "vendor", "ws", "x">>

SegRank(s) == CHOOSE i \in 1..Len(SegOrder) : SegOrder[i] = s

\* len(s) of one segment
StrLen(s) ==
  CASE s \in {".", "C", "D", "d", "m", "p", "q", "s", "t", "x"} -> 1
    [] s \in {"dx", "go", "ws"} -> 2
    [] s = "src" -> 3
    [] s = "vendor" -> 6

\* s < t for two segments
SegLess(s, t) == SegRank(s) < SegRank(t)

\* len(path) of the string a/b/c: the segments and the separators between them
RECURSIVE PathLen(_)
PathLen(path) ==
  IF path = <<>> THEN 0
  ELSE IF Len(path) = 1 THEN StrLen(path[1])
  ELSE StrLen(path[1]) + 1 + PathLen(Tail(path))

\* s < t for two slash-separated strings: '/' sorts before every letter, so
\* the order is the lexicographic order of the segment sequences
RECURSIVE PathLess(_, _)
PathLess(s, t) ==
  IF t = <<>> THEN FALSE
  ELSE IF s = <<>> THEN TRUE
  ELSE IF s[1] # t[1] THEN SegLess(s[1], t[1])
  ELSE PathLess(Tail(s), Tail(t))

\* s is t or a directory above t
IsPrefix(s, t) == Len(s) <= Len(t) /\ SubSeq(t, 1, Len(s)) = s

\* sort.Strings over a set of distinct strings
RECURSIVE SortPaths(_)
SortPaths(S) ==
  IF S = {} THEN <<>>
  ELSE LET m == CHOOSE x \in S : \A y \in S \ {x} : PathLess(x, y)
       IN  <<m>> \o SortPaths(S \ {m})

Range(f) == {f[i] : i \in DOMAIN f}

(***************************************************************************)
(* The process-wide settings of a run (main.go:38-44).                     *)
(***************************************************************************)
\* GOPATH: one workspace; its packages live below <GOPATH>/src
GOPATH == <<"ws">>
\* GOROOT: the standard library lives below <GOROOT>/src
GOROOT == <<"go">>

\* A pattern of the -u flag: the literal path prefix, or prefix/... when wild
\* (matchPattern: '...' matches any string, and foo/... matches foo too).
matchPattern(pat, name) ==
  IF pat.wild THEN IsPrefix(pat.prefix, name) ELSE name = pat.prefix

\* assumes path and cwd are clean
inCWD(workdir, path) == IsPrefix(workdir, path)

(***************************************************************************)
(* isDir and its cache.  A cache is a set of <<path, result>> pairs; tree  *)
(* is the set of directories that exist on disk.                           *)
(***************************************************************************)
isDirStat(tree, path) == path \in tree

isDir(cache, tree, path) ==
  IF \E e \in cache : e[1] = path
  THEN [result |-> (CHOOSE e \in cache : e[1] = path)[2], cache |-> cache]
  ELSE [result |-> isDirStat(tree, path),
        cache  |-> cache \cup {<<path, isDirStat(tree, path)>>}]

(***************************************************************************)
(* vendoredImportPath.  The parent is [nil, Dir, Root, ImportPath]; the    *)
(* result is [found, searched, cache, fault], where fault is "none", or    *)
(* "exit" (os.Exit(1) at line 429), or "panic" (the slice expression of    *)
(* line 466 with a negative bound), or "malformed" (the slice cuts the     *)
(* parent's import path inside a segment or leaves it empty).              *)
(***************************************************************************)
\* filepath.Clean of a path that is clean but for being empty
filepathClean(path) == IF path = <<>> THEN <<".">> ELSE path

NilParent == [nil |-> TRUE, Dir |-> <<>>, Root |-> <<>>, ImportPath |-> <<>>]

\* len(dir) - i: the bytes of the segments of dir after the first k, each
\* with the separator before it
RECURSIVE choppedBytes(_, _)
choppedBytes(dir, k) ==
  IF k >= Len(dir) THEN 0
  ELSE 1 + StrLen(dir[k + 1]) + choppedBytes(dir, k + 1)

\* parent.ImportPath[:n] + "/" + vpath
slicedVendorPath(importPath, n, path) ==
  IF n < 0 THEN [found |-> <<>>, fault |-> "panic"]
  ELSE IF \E j \in 1..Len(importPath) : PathLen(SubSeq(importPath, 1, j)) = n
  THEN LET j == CHOOSE j \in 1..Len(importPath) :
                  PathLen(SubSeq(importPath, 1, j)) = n
       IN  [found |-> SubSeq(importPath, 1, j) \o <<"vendor">> \o path,
            fault |-> "none"]
  ELSE [found |-> <<>>, fault |-> "malformed"]

\* the loop of lines 437-470 from the boundary that keeps k segments of dir
RECURSIVE vendorWalk(_, _, _, _, _, _)
vendorWalk(parent, path, k, searched, cache, tree) ==
  IF k < Len(parent.Root)
  THEN [found |-> path, searched |-> searched, cache |-> cache, fault |-> "none"]
  ELSE
    LET base == SubSeq(parent.Dir, 1, k)
        v    == isDir(cache, tree, base \o <<"vendor">>)
    IN
    IF ~v.result
    THEN vendorWalk(parent, path, k - 1, searched, v.cache, tree)
    ELSE
      LET targ == base \o <<"vendor">> \o path
          t    == isDir(v.cache, tree, targ)
      IN
      IF t.result
      THEN
        LET chopped == choppedBytes(parent.Dir, k)
        IN
        IF chopped = PathLen(parent.ImportPath) + 1
        THEN [found |-> <<"vendor">> \o path, searched |-> <<>>,
              cache |-> t.cache, fault |-> "none"]
        ELSE
          LET r == slicedVendorPath(parent.ImportPath,
                                    PathLen(parent.ImportPath) - chopped, path)
          IN  [found |-> r.found, searched |-> <<>>,
               cache |-> t.cache, fault |-> r.fault]
      ELSE vendorWalk(parent, path, k - 1, Append(searched, targ), t.cache, tree)

\* vendoredImportPath with the walk begun one directory above the parent's
vendoredImportPathFromAbove(parent, path, skips, workdir, cache, tree) ==
  IF parent.nil
  THEN [found |-> path, searched |-> <<>>, cache |-> cache, fault |-> "none"]
  ELSE IF \E i \in 1..Len(skips) : matchPattern(skips[i], path)
  THEN [found |-> path, searched |-> <<>>, cache |-> cache, fault |-> "none"]
  ELSE
    LET dir  == filepathClean(parent.Dir)
        root == filepathClean(parent.Root)
        par  == [parent EXCEPT !.Dir = dir, !.Root = root]
    IN
    IF ~(IsPrefix(root, dir) /\ Len(dir) > Len(root))
    THEN [found |-> <<>>, searched |-> <<>>, cache |-> cache, fault |-> "exit"]
    ELSE IF ~inCWD(workdir, dir)
    THEN [found |-> path, searched |-> <<>>, cache |-> cache, fault |-> "none"]
    ELSE vendorWalk(par, path, Len(dir) - 1, <<>>, cache, tree)

\* vendoredImportPath without the test of lines 431-435
vendoredImportPathAnywhere(parent, path, skips, workdir, cache, tree) ==
  IF parent.nil
  THEN [found |-> path, searched |-> <<>>, cache |-> cache, fault |-> "none"]
  ELSE IF \E i \in 1..Len(skips) : matchPattern(skips[i], path)
  THEN [found |-> path, searched |-> <<>>, cache |-> cache, fault |-> "none"]
  ELSE
    LET dir  == filepathClean(parent.Dir)
        root == filepathClean(parent.Root)
        par  == [parent EXCEPT !.Dir = dir, !.Root = root]
    IN
    IF ~(IsPrefix(root, dir) /\ Len(dir) > Len(root))
    THEN [found |-> <<>>, searched |-> <<>>, cache |-> cache, fault |-> "exit"]
    ELSE vendorWalk(par, path, Len(dir), <<>>, cache, tree)

vendoredImportPath(parent, path, skips, workdir, cache, tree) ==
  IF parent.nil
  THEN [found |-> path, searched |-> <<>>, cache |-> cache, fault |-> "none"]
  ELSE IF \E i \in 1..Len(skips) : matchPattern(skips[i], path)
  THEN [found |-> path, searched |-> <<>>, cache |-> cache, fault |-> "none"]
  ELSE
    LET dir  == filepathClean(parent.Dir)
        root == filepathClean(parent.Root)
        par  == [parent EXCEPT !.Dir = dir, !.Root = root]
    IN
    IF ~(IsPrefix(root, dir) /\ Len(dir) > Len(root))
    THEN [found |-> <<>>, searched |-> <<>>, cache |-> cache, fault |-> "exit"]
    ELSE IF ~inCWD(workdir, dir)
    THEN [found |-> path, searched |-> <<>>, cache |-> cache, fault |-> "none"]
    ELSE vendorWalk(par, path, Len(dir), <<>>, cache, tree)

(***************************************************************************)
(* importStack (main.go:116-146).                                          *)
(***************************************************************************)
\* shorterThan returns true if s is shorter than t; ties are settled by
\* string ordering at the first position where they differ
RECURSIVE firstDiffLess(_, _)
firstDiffLess(s, t) ==
  IF s = <<>> THEN FALSE
  ELSE IF s[1] # t[1] THEN PathLess(s[1], t[1])
  ELSE firstDiffLess(Tail(s), Tail(t))

shorterThan(s, t) ==
  IF Len(s) # Len(t) THEN Len(s) < Len(t) ELSE firstDiffLess(s, t)

(***************************************************************************)
(* PackageError and Package (main.go:148-160, 475-481).  A *Package is     *)
(* named by the key it is stored under in packageCache: the cache never    *)
(* replaces an entry, so the key and the pointer name the same object, and *)
(* a change made through any reference is a change of the cache entry.     *)
(***************************************************************************)
NoPath == <<>>

NilError ==
  [set |-> FALSE, ImportStack |-> <<>>, Pos |-> NoPath, Err |-> "",
   a |-> NoPath, b |-> NoPath, searched |-> <<>>, isImportCycle |-> FALSE]

\* &PackageError{ImportStack: stk.copy(), Err: ...}; a and b are the values
\* formatted into the message
PackageError(stack, msg, a, b) ==
  [set |-> TRUE, ImportStack |-> stack, Pos |-> NoPath, Err |-> msg,
   a |-> a, b |-> b, searched |-> <<>>, isImportCycle |-> FALSE]

(***************************************************************************)
(* toFold and foldDup (main.go:717-766).                                   *)
(***************************************************************************)
\* the case fold of one segment: the upper-case letters of the model
toFoldSeg(s) == IF s = "D" THEN "d" ELSE s

toFold(s) == [i \in DOMAIN s |-> toFoldSeg(s[i])]

\* foldDupFrom without the exchange of lines 758-760
RECURSIVE foldDupFromNoSwap(_, _, _)
foldDupFromNoSwap(list, i, clash) ==
  IF i > Len(list) THEN [a |-> NoPath, b |-> NoPath]
  ELSE
    LET s    == list[i]
        fold == toFold(s)
        hit  == {e \in clash : e[1] = fold /\ e[2] # NoPath}
    IN
    IF hit # {}
    THEN [a |-> s, b |-> (CHOOSE e \in hit : TRUE)[2]]
    ELSE foldDupFromNoSwap(list, i + 1,
                           {e \in clash : e[1] # fold} \cup {<<fold, s>>})

\* the loop of foldDup from position i, with clash the set of <<fold, s>>
\* pairs recorded so far; the result is the pair, or NoPath twice
RECURSIVE foldDupFrom(_, _, _)
foldDupFrom(list, i, clash) ==
  IF i > Len(list) THEN [a |-> NoPath, b |-> NoPath]
  ELSE
    LET s    == list[i]
        fold == toFold(s)
        hit  == {e \in clash : e[1] = fold /\ e[2] # NoPath}
    IN
    IF hit # {}
    THEN LET t == (CHOOSE e \in hit : TRUE)[2]
         IN  IF PathLess(t, s) THEN [a |-> t, b |-> s] ELSE [a |-> s, b |-> t]
    ELSE foldDupFrom(list, i + 1, {e \in clash : e[1] # fold} \cup {<<fold, s>>})

foldDup(list) == foldDupFrom(list, 1, {})

\* reusePackage without the test of isImportCycle at line 578
reusePackageAnyStack(p, stk) ==
  LET p1 == IF p.loadedDeps /\ ~p.Error.set
            THEN [p EXCEPT !.Error =
                    [PackageError(stk, "import cycle not allowed", NoPath, NoPath)
                       EXCEPT !.isImportCycle = TRUE]]
            ELSE p
  IN
  IF p1.Error.set /\ shorterThan(stk, p1.Error.ImportStack)
  THEN [p1 EXCEPT !.Error.ImportStack = stk]
  ELSE p1

\* reusePackage that hands out the cached package as one not yet loaded
reusePackageReset(p, stk) ==
  [p EXCEPT !.loadedDeps = FALSE, !.deps = <<>>]

(***************************************************************************)
(* reusePackage (main.go:565-582): p is the cached package, stk the stack  *)
(* with the import at its top.  The result is p as it is left.             *)
(***************************************************************************)
reusePackage(p, stk) ==
  LET p1 == IF p.loadedDeps /\ ~p.Error.set
            THEN [p EXCEPT !.Error =
                    [PackageError(stk, "import cycle not allowed", NoPath, NoPath)
                       EXCEPT !.isImportCycle = TRUE]]
            ELSE p
  IN
  IF p1.Error.set /\ ~p1.Error.isImportCycle /\ shorterThan(stk, p1.Error.ImportStack)
  THEN [p1 EXCEPT !.Error.ImportStack = stk]
  ELSE p1

(***************************************************************************)
(* The state.                                                              *)
(***************************************************************************)
VARIABLES
  srcs,         \* the source trees: import path -> what go/build reads there
  dirs,         \* the directories that exist on disk
  cwd,          \* the current working directory
  skipVendor,   \* the patterns of the -u flag
  args,         \* the arguments of packages()
  packageCache, \* import path -> Package
  isDirCache,   \* the cache of isDir
  stk,          \* the import stack
  frames,       \* the activations of loadDeps, the innermost last
  pkgs,         \* packages(): the list built so far
  set,          \* packages(): the arguments already loaded
  argi,         \* packages(): the index of the next argument
  loads,        \* the import paths handed to buildContext.Import, in order
  deps,         \* the list returned by dependencies()
  pc,           \* where main is
  vin,          \* VendorSpec: the arguments of one vendoredImportPath call
  vout,         \* VendorSpec: what the call returned
  seen,         \* main: the import paths already copied (main.go:70)
  depi,         \* main: the index of the next dependency of the copy loop
  copied,       \* the import paths handed to copyDep, in order
  dirs0,        \* the directories that existed when the run began
  run           \* the number of the run: 1, or 2 for the run repeated

mainVars == <<seen, depi, copied, dirs0, run>>

vars == <<srcs, dirs, cwd, skipVendor, args, packageCache, isDirCache, stk,
          frames, pkgs, set, argi, loads, deps, pc, vin, vout, seen, depi,
          copied, dirs0, run>>

(***************************************************************************)
(* buildContext.Import and copyBuild (main.go:157-160, 236, 259).          *)
(***************************************************************************)
\* go/build: the package at an import path, below GOROOT or GOPATH, or an
\* error with an empty Dir and Root when no such directory holds a package
Import(path) ==
  IF path \in DOMAIN srcs
  THEN LET m    == srcs[path]
           root == IF m.Goroot THEN GOROOT ELSE GOPATH
       IN  [err |-> FALSE, Dir |-> root \o <<"src">> \o path, Root |-> root,
            Goroot |-> m.Goroot, Name |-> m.Name, Imports |-> m.Imports,
            TestImports |-> m.TestImports, XTestImports |-> m.XTestImports,
            Files |-> m.Files]
  ELSE [err |-> TRUE, Dir |-> NoPath, Root |-> NoPath, Goroot |-> FALSE,
        Name |-> "", Imports |-> <<>>, TestImports |-> <<>>,
        XTestImports |-> <<>>, Files |-> <<>>]

\* strings.Contains(p.ImportPath, "."): no segment of the model holds a dot
containsDot(path) == \E i \in DOMAIN path : path[i] \in {}

\* copyBuild on a build.Package whose ImportPath was left empty
copyBuildNoImportPath(bp, importPath) ==
  [ImportPath |-> NoPath, Dir |-> bp.Dir, Root |-> bp.Root,
   Goroot |-> bp.Goroot, Name |-> bp.Name, Imports |-> bp.Imports,
   TestImports |-> bp.TestImports, XTestImports |-> bp.XTestImports,
   Files |-> bp.Files,
   Standard |-> FALSE,
   Error |-> NilError, loadedDeps |-> FALSE, deps |-> <<>>]

\* new(Package), then bp.ImportPath = importPath and p.copyBuild(bp)
copyBuild(bp, importPath) ==
  [ImportPath |-> importPath, Dir |-> bp.Dir, Root |-> bp.Root,
   Goroot |-> bp.Goroot, Name |-> bp.Name, Imports |-> bp.Imports,
   TestImports |-> bp.TestImports, XTestImports |-> bp.XTestImports,
   Files |-> bp.Files,
   Standard |-> bp.Goroot /\ importPath # NoPath /\ ~containsDot(importPath),
   Error |-> NilError, loadedDeps |-> FALSE, deps |-> <<>>]

\* build.IsLocalImport: ".", "..", or a path that begins with ./ or ../
IsLocalImport(path) == path # NoPath /\ path[1] \in {".", ".."}

(***************************************************************************)
(* The loader.  Its operators take and return the record M of the values   *)
(* the loader changes: [cache, dircache, stk, frames, pkgs, set, argi,     *)
(* loads, pc].  A frame [key, importer, importPaths, i, deps] is one       *)
(* activation of loadDeps stopped at the call of line 338: key names p,    *)
(* importer the package whose import statement led to p (NoPath for a      *)
(* command-line argument), i the position in importPaths, and deps the     *)
(* keys of the local map deps.                                             *)
(***************************************************************************)
Cur ==
  [cache |-> packageCache, dircache |-> isDirCache, stk |-> stk,
   frames |-> frames, pkgs |-> pkgs, set |-> set, argi |-> argi,
   loads |-> loads, pc |-> pc]

\* deliver without the inner loop of lines 357-359
deliverDirectOnly(M, key) ==
  IF M.frames = <<>>
  THEN [M EXCEPT !.pkgs = Append(@, key),
                 !.set  = @ \cup {args[M.argi]},
                 !.argi = @ + 1]
  ELSE
    LET n   == Len(M.frames)
        f   == M.frames[n]
        p1  == M.cache[key]
        raw == f.importPaths[f.i]
        c1  == IF p1.Name = "main"
               THEN [M.cache EXCEPT ![f.key].Error =
                       [PackageError(M.stk,
                          "import is a program, not an importable package",
                          raw, NoPath) EXCEPT !.Pos = f.key]]
               ELSE M.cache
        c2  == IF f.i <= Len(c1[f.key].Imports)
               THEN [c1 EXCEPT ![f.key].Imports[f.i] = key]
               ELSE c1
        nd  == IF p1.Standard THEN f.deps
               ELSE f.deps \cup {key}
    IN  [M EXCEPT !.cache = c2,
                  !.frames[n] = [f EXCEPT !.deps = nd, !.i = @ + 1]]

\* deliver without the test of lines 353-355
deliverStandardToo(M, key) ==
  IF M.frames = <<>>
  THEN [M EXCEPT !.pkgs = Append(@, key),
                 !.set  = @ \cup {args[M.argi]},
                 !.argi = @ + 1]
  ELSE
    LET n   == Len(M.frames)
        f   == M.frames[n]
        p1  == M.cache[key]
        raw == f.importPaths[f.i]
        c1  == IF p1.Name = "main"
               THEN [M.cache EXCEPT ![f.key].Error =
                       [PackageError(M.stk,
                          "import is a program, not an importable package",
                          raw, NoPath) EXCEPT !.Pos = f.key]]
               ELSE M.cache
        c2  == IF f.i <= Len(c1[f.key].Imports)
               THEN [c1 EXCEPT ![f.key].Imports[f.i] = key]
               ELSE c1
        nd  == f.deps \cup {key} \cup Range(p1.deps)
    IN  [M EXCEPT !.cache = c2,
                  !.frames[n] = [f EXCEPT !.deps = nd, !.i = @ + 1]]

\* deliver with the inner loop of lines 357-359 left after its first turn
deliverFirstDepOnly(M, key) ==
  IF M.frames = <<>>
  THEN [M EXCEPT !.pkgs = Append(@, key),
                 !.set  = @ \cup {args[M.argi]},
                 !.argi = @ + 1]
  ELSE
    LET n   == Len(M.frames)
        f   == M.frames[n]
        p1  == M.cache[key]
        raw == f.importPaths[f.i]
        c1  == IF p1.Name = "main"
               THEN [M.cache EXCEPT ![f.key].Error =
                       [PackageError(M.stk,
                          "import is a program, not an importable package",
                          raw, NoPath) EXCEPT !.Pos = f.key]]
               ELSE M.cache
        c2  == IF f.i <= Len(c1[f.key].Imports)
               THEN [c1 EXCEPT ![f.key].Imports[f.i] = key]
               ELSE c1
        nd  == IF p1.Standard THEN f.deps
               ELSE f.deps \cup {key}
                    \cup (IF p1.deps = <<>> THEN {} ELSE {p1.deps[1]})
    IN  [M EXCEPT !.cache = c2,
                  !.frames[n] = [f EXCEPT !.deps = nd, !.i = @ + 1]]

\* The caller goes on after loadImport returned the package at key:
\* packages() appends it (main.go:173-174); loadDeps runs lines 339-359.
deliver(M, key) ==
  IF M.frames = <<>>
  THEN [M EXCEPT !.pkgs = Append(@, key),
                 !.set  = @ \cup {args[M.argi]},
                 !.argi = @ + 1]
  ELSE
    LET n   == Len(M.frames)
        f   == M.frames[n]
        p1  == M.cache[key]
        raw == f.importPaths[f.i]
        c1  == IF p1.Name = "main"
               THEN [M.cache EXCEPT ![f.key].Error =
                       [PackageError(M.stk,
                          "import is a program, not an importable package",
                          raw, NoPath) EXCEPT !.Pos = f.key]]
               ELSE M.cache
        c2  == IF f.i <= Len(c1[f.key].Imports)
               THEN [c1 EXCEPT ![f.key].Imports[f.i] = key]
               ELSE c1
        nd  == IF p1.Standard THEN f.deps
               ELSE f.deps \cup {key} \cup Range(p1.deps)
    IN  [M EXCEPT !.cache = c2,
                  !.frames[n] = [f EXCEPT !.deps = nd, !.i = @ + 1]]

\* loadImport after loadDeps returned (main.go:271-276), its deferred pop,
\* and the caller going on.  The frame of key is no longer in M.frames.
afterLoadDeps(M, key, importer) ==
  LET c1 == IF M.cache[key].Error.set /\ importer # NoPath
            THEN [M.cache EXCEPT ![key].Error.Pos = importer]
            ELSE M.cache
  IN  deliver([M EXCEPT !.cache = c1,
                        !.stk = SubSeq(@, 1, Len(@) - 1)], key)

\* loadDepsBegin without the test of lines 313-319
loadDepsBeginAnyFiles(M, key, err, searched, importer) ==
  LET p == M.cache[key]
  IN
  IF err
  THEN afterLoadDeps(
         [M EXCEPT !.cache[key].Error =
            [PackageError(M.stk, "cannot find package", key, NoPath)
               EXCEPT !.searched = searched]], key, importer)
  ELSE [M EXCEPT !.frames = Append(@,
          [key |-> key, importer |-> importer,
           importPaths |-> p.Imports \o p.TestImports \o p.XTestImports,
           i |-> 1, deps |-> {}])]

\* loadDeps up to its loop (main.go:281-322)
loadDepsBegin(M, key, err, searched, importer) ==
  LET p == M.cache[key]
      f == foldDup(p.Files)
  IN
  IF err
  THEN afterLoadDeps(
         [M EXCEPT !.cache[key].Error =
            [PackageError(M.stk, "cannot find package", key, NoPath)
               EXCEPT !.searched = searched]], key, importer)
  ELSE IF f.a # NoPath
  THEN afterLoadDeps(
         [M EXCEPT !.cache[key].Error =
            PackageError(M.stk, "case-insensitive file name collision", f.a, f.b)],
         key, importer)
  ELSE [M EXCEPT !.frames = Append(@,
          [key |-> key, importer |-> importer,
           importPaths |-> p.Imports \o p.TestImports \o p.XTestImports,
           i |-> 1, deps |-> {}])]

\* loadImport without the lookup of lines 223-225
loadImportUncached(M, path, parentKey) ==
  LET stk1   == Append(M.stk, path)
      parent == IF parentKey = NoPath THEN NilParent
                ELSE [nil |-> FALSE, Dir |-> M.cache[parentKey].Dir,
                      Root |-> M.cache[parentKey].Root,
                      ImportPath |-> M.cache[parentKey].ImportPath]
      r      == vendoredImportPath(parent, path, skipVendor, cwd, M.dircache, dirs)
      M1     == [M EXCEPT !.stk = stk1, !.dircache = r.cache]
  IN
  IF r.fault # "none" THEN [M1 EXCEPT !.pc = r.fault]
  ELSE
    LET bp == Import(r.found)
        p  == copyBuild(bp, r.found)
        M2 == [M1 EXCEPT !.cache = (r.found :> p) @@ @,
                         !.loads = Append(@, r.found)]
    IN  IF p.Standard
        THEN deliver([M2 EXCEPT !.stk = M.stk], r.found)
        ELSE loadDepsBegin(M2, r.found, bp.err, r.searched, parentKey)

\* loadImport (main.go:209-277) up to the point where it returns or where
\* loadDeps reaches its loop; parentKey is NoPath for a nil parent
loadImport(M, path, parentKey) ==
  LET stk1   == Append(M.stk, path)
      parent == IF parentKey = NoPath THEN NilParent
                ELSE [nil |-> FALSE, Dir |-> M.cache[parentKey].Dir,
                      Root |-> M.cache[parentKey].Root,
                      ImportPath |-> M.cache[parentKey].ImportPath]
      r      == vendoredImportPath(parent, path, skipVendor, cwd, M.dircache, dirs)
      M1     == [M EXCEPT !.stk = stk1, !.dircache = r.cache]
  IN
  IF r.fault # "none" THEN [M1 EXCEPT !.pc = r.fault]
  ELSE IF r.found \in DOMAIN M.cache
  THEN deliver([M1 EXCEPT !.cache[r.found] = reusePackage(@, stk1),
                          !.stk = M.stk], r.found)
  ELSE
    LET bp == Import(r.found)
        p  == copyBuild(bp, r.found)
        M2 == [M1 EXCEPT !.cache = @ @@ (r.found :> p),
                         !.loads = Append(@, r.found)]
    IN  IF p.Standard
        THEN deliver([M2 EXCEPT !.stk = M.stk], r.found)
        ELSE loadDepsBegin(M2, r.found, bp.err, r.searched, parentKey)

\* One turn of the loop of packages() (main.go:171-176) when no loadDeps is
\* active, and else one turn of the loop of the innermost loadDeps
\* (main.go:323-338) up to the point where the loadImport it calls returns
\* or reaches its own loop.
step(M) ==
  IF M.frames = <<>>
  THEN IF args[M.argi] \in M.set
       THEN [M EXCEPT !.argi = @ + 1]
       ELSE loadImport(M, args[M.argi], NoPath)
  ELSE
    LET n    == Len(M.frames)
        f    == M.frames[n]
        path == f.importPaths[f.i]
    IN
    IF path = <<"C">>
    THEN [M EXCEPT !.frames[n].i = @ + 1]
    ELSE IF IsLocalImport(path)
    THEN afterLoadDeps(
           [M EXCEPT !.cache[f.key].Error =
              [PackageError(M.stk, "local import in non-local package",
                            path, NoPath) EXCEPT !.Pos = f.key],
                     !.frames = SubSeq(@, 1, n - 1)],
           f.key, f.importer)
    ELSE loadImport(M, path, f.key)

\* finish without the check of lines 380-391
finishNoCollisionCheck(M) ==
  LET n        == Len(M.frames)
      f        == M.frames[n]
      depPaths == SortPaths(f.deps)
      c1       == [M.cache EXCEPT ![f.key].loadedDeps = TRUE,
                                  ![f.key].deps = @ \o depPaths]
  IN  afterLoadDeps([M EXCEPT !.cache = c1, !.frames = SubSeq(@, 1, n - 1)],
                    f.key, f.importer)

\* finish with the importing package entered in the map deps
finishWithImporter(M) ==
  LET n        == Len(M.frames)
      f        == M.frames[n]
      depPaths == SortPaths(f.deps \cup ({f.importer} \ {NoPath}))
      c1       == [M.cache EXCEPT ![f.key].loadedDeps = TRUE,
                                  ![f.key].deps = @ \o depPaths]
      depErrs  == \E i \in DOMAIN depPaths : c1[depPaths[i]].Error.set
      dup      == foldDup(depPaths)
      c2       == IF ~depErrs /\ dup.a # NoPath
                  THEN [c1 EXCEPT ![f.key].Error =
                          PackageError(M.stk, "case-insensitive import collision",
                                       dup.a, dup.b)]
                  ELSE c1
  IN  afterLoadDeps([M EXCEPT !.cache = c2, !.frames = SubSeq(@, 1, n - 1)],
                    f.key, f.importer)

\* loadDeps after its loop (main.go:361-392), then the rest of loadImport
finish(M) ==
  LET n        == Len(M.frames)
      f        == M.frames[n]
      depPaths == SortPaths(f.deps)
      c1       == [M.cache EXCEPT ![f.key].loadedDeps = TRUE,
                                  ![f.key].deps = @ \o depPaths]
      depErrs  == \E i \in DOMAIN depPaths : c1[depPaths[i]].Error.set
      dup      == foldDup(depPaths)
      c2       == IF ~depErrs /\ dup.a # NoPath
                  THEN [c1 EXCEPT ![f.key].Error =
                          PackageError(M.stk, "case-insensitive import collision",
                                       dup.a, dup.b)]
                  ELSE c1
  IN  afterLoadDeps([M EXCEPT !.cache = c2, !.frames = SubSeq(@, 1, n - 1)],
                    f.key, f.importer)

(***************************************************************************)
(* dependencies (main.go:91-105).                                          *)
(***************************************************************************)
\* sort.Sort(byImportPath(deps)): entries with equal import paths are the
\* same package, so the sorted list is determined
RECURSIVE insertByImportPath(_, _)
insertByImportPath(sorted, x) ==
  IF sorted = <<>> THEN <<x>>
  ELSE IF PathLess(x, sorted[1]) THEN <<x>> \o sorted
  ELSE <<sorted[1]>> \o insertByImportPath(Tail(sorted), x)

RECURSIVE sortByImportPath(_)
sortByImportPath(list) ==
  IF list = <<>> THEN <<>>
  ELSE insertByImportPath(sortByImportPath(Tail(list)), list[1])

\* notInCWD without the test of lines 97-99
RECURSIVE keepAll(_, _, _)
keepAll(cache, list, dir) ==
  IF list = <<>> THEN <<>>
  ELSE <<list[1]>> \o keepAll(cache, Tail(list), dir)

\* the entries of p.deps that are not in cwd, in order
RECURSIVE notInCWD(_, _, _)
notInCWD(cache, list, dir) ==
  IF list = <<>> THEN <<>>
  ELSE (IF inCWD(dir, cache[list[1]].Dir) THEN <<>> ELSE <<list[1]>>)
       \o notInCWD(cache, Tail(list), dir)

RECURSIVE collectDeps(_, _, _)
collectDeps(cache, packages, dir) ==
  IF packages = <<>> THEN <<>>
  ELSE notInCWD(cache, cache[packages[1]].deps, dir)
       \o collectDeps(cache, Tail(packages), dir)

\* dependencies without the sort of line 103
dependenciesUnsorted(cache, packages, dir) == collectDeps(cache, packages, dir)

dependencies(cache, packages, dir) ==
  sortByImportPath(collectDeps(cache, packages, dir))

(***************************************************************************)
(* The inputs of a run: a GOPATH workspace with the packages p, q and d,   *)
(* the program m, vendored copies of d below p and below q, the standard   *)
(* packages s and t, no package x, the working directory <GOPATH>/src/p,   *)
(* and at most MaxImports import statements.  No directory named vendor    *)
(* lies directly in <GOPATH> or in <GOPATH>/src.                           *)
(***************************************************************************)
P == <<"p">>
Q == <<"q">>
D == <<"d">>
S == <<"s">>
T == <<"t">>
CMD == <<"m">>
NOPKG == <<"x">>
PVD == <<"p", "vendor", "d">>
QVD == <<"q", "vendor", "d">>

Importers == {P, Q, D}
RootLists ==
  {<<P>>, <<Q>>, <<D>>, <<P, Q>>, <<Q, P>>, <<P, D>>, <<D, P>>, <<Q, D>>, <<D, Q>>,
   <<P, P>>, <<S, P>>, <<NOPKG, Q>>}
WorkingDirs == {GOPATH \o <<"src">> \o P}
VendorCopies == {PVD, QVD}
SkipLists == {<<>>, <<[prefix |-> D, wild |-> FALSE]>>}

\* an import statement: in a source file (Imports), in a test file of the
\* package (TestImports) or of its external test package (XTestImports)
PossibleImports ==
  {[from |-> f, kind |-> "Imports", to |-> r] : f \in Importers, r \in {P, Q, D, S}}
  \cup {[from |-> f, kind |-> "Imports", to |-> r] : f \in {P, Q}, r \in {CMD, NOPKG}}
  \cup {[from |-> P, kind |-> "TestImports", to |-> D],
        [from |-> Q, kind |-> "TestImports", to |-> D],
        [from |-> P, kind |-> "XTestImports", to |-> Q]}

\* the packages that import statements lead to from the roots
RECURSIVE importClosure(_, _)
importClosure(X, E) ==
  LET N == X \cup {e.to : e \in {e \in E : e.from \in X}}
  IN  IF N = X THEN X ELSE importClosure(N, E)

\* go/build lists the imports of each kind sorted and without duplicates
importsOf(E, f, kind) == SortPaths({e.to : e \in {e \in E : e.from = f /\ e.kind = kind}})

sourceOf(E, f) ==
  [Goroot |-> FALSE, Name |-> f[Len(f)],
   Imports |-> importsOf(E, f, "Imports"),
   TestImports |-> importsOf(E, f, "TestImports"),
   XTestImports |-> importsOf(E, f, "XTestImports"),
   Files |-> <<<<"x">>>>]

leafSource(goroot, name, imports) ==
  [Goroot |-> goroot, Name |-> name, Imports |-> imports,
   TestImports |-> <<>>, XTestImports |-> <<>>, Files |-> <<<<"x">>>>]

sourceTrees(E, V) ==
  [x \in Importers \cup V \cup {S, T, CMD} |->
     IF x \in Importers THEN sourceOf(E, x)
     ELSE IF x = S THEN leafSource(TRUE, "s", <<T>>)
     ELSE IF x = T THEN leafSource(TRUE, "t", <<>>)
     ELSE IF x = CMD THEN leafSource(FALSE, "main", <<>>)
     ELSE leafSource(FALSE, "d", <<>>)]

\* every directory on the way to a package is a directory
directoriesOf(trees) ==
  UNION {{SubSeq(dir, 1, k) : k \in 1..Len(dir)} :
           dir \in {(IF trees[x].Goroot THEN GOROOT ELSE GOPATH) \o <<"src">> \o x :
                      x \in DOMAIN trees}}

Init ==
  /\ \E E \in SUBSET PossibleImports, V \in SUBSET VendorCopies :
       /\ Cardinality(E) <= MaxImports
       /\ srcs = sourceTrees(E, V)
       /\ dirs = directoriesOf(sourceTrees(E, V))
       /\ args \in RootLists
       /\ \A e \in E : e.from \in importClosure(Range(args), E)
  /\ cwd \in WorkingDirs
  /\ skipVendor \in SkipLists
  /\ packageCache = <<>>
  /\ isDirCache = {}
  /\ stk = <<>>
  /\ frames = <<>>
  /\ pkgs = <<>>
  /\ set = {}
  /\ argi = 1
  /\ loads = <<>>
  /\ deps = <<>>
  /\ pc = "packages"
  /\ vin = <<>>
  /\ vout = <<>>
  /\ seen = <<>> /\ depi = 1 /\ copied = <<>> /\ dirs0 = dirs /\ run = 1

(***************************************************************************)
(* The actions.                                                            *)
(***************************************************************************)
Becomes(M) ==
  /\ packageCache' = M.cache
  /\ isDirCache' = M.dircache
  /\ stk' = M.stk
  /\ frames' = M.frames
  /\ pkgs' = M.pkgs
  /\ set' = M.set
  /\ argi' = M.argi
  /\ loads' = M.loads
  /\ pc' = M.pc
  /\ UNCHANGED <<srcs, dirs, cwd, skipVendor, args, deps, vin, vout>>
  /\ UNCHANGED mainVars

\* the next argument of packages(), or the next import of the innermost
\* loadDeps
CanStep ==
  /\ pc = "packages"
  /\ IF frames = <<>> THEN argi <= Len(args)
     ELSE frames[Len(frames)].i <= Len(frames[Len(frames)].importPaths)

Step == CanStep /\ Becomes(step(Cur))

\* the innermost loadDeps is through its imports and returns
CanFinish ==
  /\ pc = "packages"
  /\ frames # <<>>
  /\ frames[Len(frames)].i > Len(frames[Len(frames)].importPaths)

Finish == CanFinish /\ Becomes(finish(Cur))

\* packages() has returned; main calls dependencies(roots)
PackagesReturned ==
  /\ pc = "packages"
  /\ frames = <<>>
  /\ argi > Len(args)

Dependencies ==
  /\ PackagesReturned
  /\ deps' = dependencies(packageCache, pkgs, cwd)
  /\ pc' = "report"
  /\ UNCHANGED <<srcs, dirs, cwd, skipVendor, args, packageCache, isDirCache,
                 stk, frames, pkgs, set, argi, loads, vin, vout>>
  /\ UNCHANGED mainVars

Next == Step \/ Finish \/ Dependencies

Spec == Init /\ [][Next]_vars

(***************************************************************************)
(* VendorSpec: single calls of vendoredImportPath.  The parent is nil, or  *)
(* a package of the workspace at <GOPATH>/src/p, p/q, ... (at most         *)
(* MaxDepth segments), or a package that go/build found outside every      *)
(* workspace (Root is empty), which main loads only from below the working *)
(* directory.  Every directory that the walk looks at, from the parent's   *)
(* directory up to its root, holds no vendor directory, or an empty one,   *)
(* or one with the imported package d in it.                               *)
(***************************************************************************)
ParentChain == <<"p", "q", "s", "t">>
Outside == <<"x">>

VendorParents ==
  {NilParent}
  \cup {[nil |-> FALSE, Dir |-> GOPATH \o <<"src">> \o SubSeq(ParentChain, 1, n),
         Root |-> GOPATH, ImportPath |-> SubSeq(ParentChain, 1, n)] : n \in 1..MaxDepth}
  \cup {[nil |-> FALSE, Dir |-> Outside \o <<"p">>, Root |-> NoPath,
         ImportPath |-> <<"p">>]}

VendorWorkingDirs ==
  {GOPATH \o <<"src">> \o SubSeq(ParentChain, 1, n) : n \in 0..MaxDepth}
  \cup {Outside}

VendorSkipLists ==
  {<<>>,
   <<[prefix |-> D, wild |-> FALSE]>>,
   <<[prefix |-> D, wild |-> TRUE]>>,
   <<[prefix |-> Q, wild |-> FALSE]>>,
   <<[prefix |-> Q, wild |-> TRUE], [prefix |-> <<>>, wild |-> TRUE]>>}

\* the directories of a tree in which level k of dir (its first k segments)
\* holds what holds[k] says
vendorTree(dir, holds, path) ==
  {SubSeq(dir, 1, k) : k \in 1..Len(dir)}
  \cup {SubSeq(dir, 1, k) \o <<"vendor">> :
          k \in {k \in 1..Len(dir) : holds[k] \in {"vendor", "vendor/d"}}}
  \cup UNION {{SubSeq(dir, 1, k) \o <<"vendor">> \o SubSeq(path, 1, j) : j \in 1..Len(path)} :
          k \in {k \in 1..Len(dir) : holds[k] = "vendor/d"}}

VendorInit ==
  /\ vin \in [parent : VendorParents, path : {D}]
  /\ cwd \in VendorWorkingDirs
  /\ (~vin.parent.nil /\ vin.parent.Root = NoPath) => inCWD(cwd, vin.parent.Dir)
  /\ skipVendor \in VendorSkipLists
  /\ \E holds \in [1..Len(vin.parent.Dir) -> {"none", "vendor", "vendor/d"}] :
       dirs = vendorTree(vin.parent.Dir, holds, vin.path)
  /\ isDirCache = {}
  /\ vout = <<>>
  /\ pc = "vendor"
  /\ srcs = <<>> /\ args = <<>> /\ packageCache = <<>> /\ stk = <<>>
  /\ frames = <<>> /\ pkgs = <<>> /\ set = {} /\ argi = 1 /\ loads = <<>>
  /\ deps = <<>>
  /\ seen = <<>> /\ depi = 1 /\ copied = <<>> /\ dirs0 = dirs /\ run = 1

VendorCall ==
  /\ pc = "vendor"
  /\ LET r == vendoredImportPath(vin.parent, vin.path, skipVendor, cwd, isDirCache, dirs)
     IN  /\ vout' = [found |-> r.found, searched |-> r.searched, fault |-> r.fault]
         /\ isDirCache' = r.cache
  /\ pc' = "vendored"
  /\ UNCHANGED <<srcs, dirs, cwd, skipVendor, args, packageCache, stk, frames,
                 pkgs, set, argi, loads, deps, vin>>
  /\ UNCHANGED mainVars

VendorNext == VendorCall

VendorSpec == VendorInit /\ [][VendorNext]_vars

(***************************************************************************)
(* The import graph of a run, read from the source trees alone: an edge    *)
(* leads from a package to the package that each of its import statements  *)
(* names after vendor expansion.                                           *)
(***************************************************************************)
parentOf(k) ==
  [nil |-> FALSE, Dir |-> Import(k).Dir, Root |-> Import(k).Root, ImportPath |-> k]

resolvedImport(k, raw) ==
  vendoredImportPath(parentOf(k), raw, skipVendor, cwd, {}, dirs).found

importsOn(k) ==
  IF k \in DOMAIN srcs
  THEN {resolvedImport(k, raw) :
          raw \in Range(srcs[k].Imports \o srcs[k].TestImports \o srcs[k].XTestImports)
                    \ {<<"C">>}}
  ELSE {}

RECURSIVE graphClosure(_)
graphClosure(X) ==
  LET N == X \cup UNION {importsOn(k) : k \in X}
  IN  IF N = X THEN X ELSE graphClosure(N)

\* the packages that a chain of one or more imports leads to from X
reachableFrom(X) == graphClosure(UNION {importsOn(k) : k \in X})

onCycle(k) == k \in reachableFrom({k})

anyError == \E k \in DOMAIN packageCache : packageCache[k].Error.set

hasDuplicates(list) == \E i, j \in DOMAIN list : i # j /\ list[i] = list[j]

(***************************************************************************)
(* C1.  packages(roots) terminates on every import graph, cycles included: *)
(* the loader is handed each resolved import path at most once; every step *)
(* of the loader lowers a natural-number variant (the packages not yet in  *)
(* the cache, weighted, plus the imports and arguments still to be looked  *)
(* at), so there is no infinite run; the loader always has its next step   *)
(* until packages() has returned; and when it has returned every call of   *)
(* loadImport has returned (the import stack is empty again) and every     *)
(* distinct argument has its package.                                      *)
(***************************************************************************)
PossibleKeys == {P, Q, D, S, T, CMD, NOPKG, PVD, QVD}

RECURSIVE pendingImports(_)
pendingImports(fs) ==
  IF fs = <<>> THEN 0
  ELSE (Len(fs[1].importPaths) - fs[1].i + 2) + pendingImports(Tail(fs))

variant ==
  (MaxImports + 3) * Cardinality(PossibleKeys \ DOMAIN packageCache)
  + pendingImports(frames)
  + (Len(args) + 1 - argi)
  + (IF pc = "packages" THEN 1 ELSE 0)

C1_Terminates ==
  /\ [](/\ ~hasDuplicates(loads)
        /\ DOMAIN packageCache \subseteq PossibleKeys
        /\ variant \in Nat
        /\ pc = "packages" => CanStep \/ CanFinish \/ PackagesReturned
        /\ pc = "report" => /\ stk = <<>>
                            /\ frames = <<>>
                            /\ Range(pkgs) = Range(args)
                            /\ ~hasDuplicates(pkgs))
  /\ [][variant' < variant]_vars

\* packages() has returned from a graph in which p and q import each other
C1_Witness ==
  /\ pc = "report"
  /\ Q \in importsOn(P)
  /\ P \in importsOn(Q)
  /\ {P, Q} \subseteq Range(loads)

(***************************************************************************)
(* C2.  When packages() has returned, every import cycle that a root leads *)
(* to has a package on it whose error has isImportCycle set.               *)
(***************************************************************************)
sameCycle(k, c) == c \in reachableFrom({k}) /\ k \in reachableFrom({c})

hasCycleError(c) ==
  /\ c \in DOMAIN packageCache
  /\ packageCache[c].Error.set
  /\ packageCache[c].Error.isImportCycle

C2_CycleReported ==
  pc = "report" =>
    \A k \in Range(pkgs) \cup reachableFrom(Range(pkgs)) :
      onCycle(k) => \E c \in PossibleKeys : sameCycle(k, c) /\ hasCycleError(c)

(***************************************************************************)
(* C3.  A step gives a package an import-cycle error only if an activation *)
(* of loadDeps for that package is still open (its import path is on the   *)
(* import stack) when the step begins; and a package that has loaded its   *)
(* dependencies and has no error has no error after any step.              *)
(***************************************************************************)
isLoading(k) == \E i \in DOMAIN frames : frames[i].key = k

C3_CycleOnlyWhileLoading ==
  [][\A k \in DOMAIN packageCache :
       /\ (~hasCycleError(k) /\ packageCache'[k].Error.set
             /\ packageCache'[k].Error.isImportCycle) => isLoading(k)
       /\ (packageCache[k].loadedDeps /\ ~packageCache[k].Error.set)
             => ~packageCache'[k].Error.set]_vars

(***************************************************************************)
(* The call of VendorSpec, read from its arguments.                        *)
(***************************************************************************)
skipped == \E i \in 1..Len(skipVendor) : matchPattern(skipVendor[i], vin.path)

\* the parent is a package with a root, in the working directory
parentInCWD ==
  /\ ~vin.parent.nil
  /\ vin.parent.Root # NoPath
  /\ inCWD(cwd, vin.parent.Dir)

\* the boundaries of the parent's directory, counted in segments, at which
\* vendor/<path> exists
vendorLevels ==
  {k \in 1..Len(vin.parent.Dir) :
     SubSeq(vin.parent.Dir, 1, k) \o <<"vendor">> \o vin.path \in dirs}

deepestLevel == CHOOSE k \in vendorLevels : \A j \in vendorLevels : j <= k

\* the import path of the directory vendor/<path> at boundary k: below
\* <root>/src, the segments of the directory down to k, then vendor/<path>
vendoredAt(k) ==
  SubSeq(vin.parent.Dir, Len(vin.parent.Root) + 2, k) \o <<"vendor">> \o vin.path

endsInVendor(found, path) ==
  /\ Len(found) > Len(path)
  /\ SubSeq(found, Len(found) - Len(path), Len(found)) = <<"vendor">> \o path

(***************************************************************************)
(* C4.  For a parent in the working directory with vendor/<path> at its    *)
(* directory or at a directory that encloses it, the call returns an       *)
(* import path that ends in vendor/<path>; unless a skip pattern matches   *)
(* the path, and then it returns the path unchanged.                       *)
(***************************************************************************)
C4_VendorShadowing ==
  (pc = "vendored" /\ parentInCWD /\ vendorLevels # {}) =>
    /\ vout.fault = "none"
    /\ IF skipped THEN vout.found = vin.path
       ELSE endsInVendor(vout.found, vin.path)

(***************************************************************************)
(* C5.  For a parent in the working directory and a path that no skip      *)
(* pattern matches: when vendor/<path> exists at one or more boundaries    *)
(* and the deepest of them lies below the parent's root, the call returns  *)
(* the import path of the deepest one.                                     *)
(***************************************************************************)
C5_ClosestVendorWins ==
  (/\ pc = "vendored" /\ parentInCWD /\ ~skipped
   /\ vendorLevels # {}
   /\ deepestLevel > Len(vin.parent.Root)) =>
    /\ vout.fault = "none"
    /\ vout.found = vendoredAt(deepestLevel)

\* vendor/<path> at the parent's directory and at an enclosing one
C5_Witness ==
  /\ pc = "vendored" /\ parentInCWD /\ ~skipped
  /\ Len(vin.parent.Dir) \in vendorLevels
  /\ \E k \in vendorLevels : Len(vin.parent.Root) < k /\ k < Len(vin.parent.Dir)
  /\ vout.found = vin.parent.ImportPath \o <<"vendor">> \o vin.path

(***************************************************************************)
(* C6.  With no parent, or with a parent whose directory is not in the     *)
(* working directory, the call returns the path unchanged.                 *)
(***************************************************************************)
C6_OutsideCWDUnchanged ==
  (pc = "vendored" /\ (vin.parent.nil \/ ~inCWD(cwd, vin.parent.Dir))) =>
    /\ vout.fault = "none"
    /\ vout.found = vin.path

\* a parent outside the working directory with vendor/<path> in its own
\* directory, and no skip pattern that matches
C6_Witness ==
  /\ pc = "vendored"
  /\ ~vin.parent.nil
  /\ ~inCWD(cwd, vin.parent.Dir)
  /\ Len(vin.parent.Dir) \in vendorLevels
  /\ ~skipped
  /\ vout.found = vin.path

rootsHolding(k) ==
  {i \in DOMAIN pkgs : k \in Range(packageCache[pkgs[i]].deps)}

C8_Complete ==
  (pc = "report" /\ ~anyError) =>
    \A k \in reachableFrom(Range(pkgs)) :
      (k \in DOMAIN srcs /\ ~srcs[k].Goroot /\ ~inCWD(cwd, Import(k).Dir))
        => k \in Range(deps)

\* p reaches q by an import of its external test package alone, and q
\* reaches d by an import of its test files alone
C8_Witness ==
  /\ pc = "report" /\ ~anyError
  /\ args = <<P>>
  /\ srcs[P].Imports = <<>> /\ srcs[P].XTestImports = <<Q>>
  /\ srcs[Q].Imports = <<>> /\ srcs[Q].TestImports = <<D>>
  /\ deps = <<D, Q>>

(***************************************************************************)
(* C9.  No package whose directory is the working directory or lies below  *)
(* it is in the list that dependencies() returns; with root p, p importing *)
(* d alone, p/vendor/d on disk and no skip pattern, the list is empty.     *)
(***************************************************************************)
C9_LocalExcluded ==
  pc = "report" =>
    /\ \A i \in DOMAIN deps : ~inCWD(cwd, packageCache[deps[i]].Dir)
    /\ (/\ args = <<P>> /\ importsOn(P) = {PVD} /\ skipVendor = <<>>) => deps = <<>>

\* the dependency list of root p holds the vendored copy of d
C9_Witness ==
  /\ pc = "report"
  /\ args = <<P>>
  /\ skipVendor = <<>>
  /\ packageCache[P].deps = <<PVD>>
  /\ inCWD(cwd, packageCache[PVD].Dir)
  /\ deps = <<>>

(***************************************************************************)
(* C10.  In every state, no dependency list (of a package in the cache, or *)
(* being built by an open loadDeps) holds a standard package; and a        *)
(* standard package has no activation of loadDeps, has not loaded its      *)
(* dependencies, has an empty dependency list and no error, and what it    *)
(* alone imports is not in the cache.                                      *)
(***************************************************************************)
C10_NoStandardLeak ==
  /\ \A k \in DOMAIN packageCache :
       /\ \A i \in DOMAIN packageCache[k].deps :
            ~packageCache[packageCache[k].deps[i]].Standard
       /\ packageCache[k].Standard =>
            /\ ~isLoading(k)
            /\ ~packageCache[k].loadedDeps
            /\ packageCache[k].deps = <<>>
            /\ ~packageCache[k].Error.set
  /\ \A i \in DOMAIN frames : \A d \in frames[i].deps : ~packageCache[d].Standard
  /\ T \notin DOMAIN packageCache

\* a package with a standard import and another one has returned
C10_Witness ==
  /\ pc = "report"
  /\ S \in DOMAIN packageCache /\ packageCache[S].Standard
  /\ \E k \in DOMAIN packageCache :
       /\ S \in Range(packageCache[k].Imports)
       /\ packageCache[k].loadedDeps
       /\ packageCache[k].deps # <<>>

(***************************************************************************)
(* C11.  When packages() has returned: for every package p in the cache    *)
(* and every d in p's dependency list, every member of d's dependency list *)
(* is a member of p's dependency list.                                     *)
(***************************************************************************)
depsOf(k) == Range(packageCache[k].deps)

C11_TransitivelyClosed ==
  pc = "report" =>
    \A p \in DOMAIN packageCache : \A d \in depsOf(p) : depsOf(d) \subseteq depsOf(p)

(***************************************************************************)
(* C11, amended.  When packages() has returned: for every package p in the *)
(* cache and every d in p's dependency list that is on no import cycle,    *)
(* every member of d's dependency list is a member of p's dependency list. *)
(***************************************************************************)
C11_ClosedOffCycles ==
  pc = "report" =>
    \A p \in DOMAIN packageCache : \A d \in depsOf(p) :
      ~onCycle(d) => depsOf(d) \subseteq depsOf(p)

\* the root p has q in its list, q has a dependency of its own, and q is on
\* no cycle
C11_Witness ==
  /\ pc = "report"
  /\ args = <<P>>
  /\ packageCache[P].deps = <<D, Q, NOPKG>>
  /\ packageCache[Q].deps = <<NOPKG>>
  /\ ~onCycle(Q)

(***************************************************************************)
(* main after packages() (main.go:54-78) and copyDep (main.go:599-637).    *)
(***************************************************************************)
\* hasPathPrefix (main.go:672-684); no prefix of the model ends in a slash
hasPathPrefix(s, prefix) ==
  CASE PathLen(s) = PathLen(prefix) -> s = prefix
    [] PathLen(s) > PathLen(prefix) ->
         prefix # NoPath /\ Len(prefix) < Len(s) /\ IsPrefix(prefix, s)
    [] OTHER -> FALSE

\* isSeen with == in place of hasPathPrefix
isSeenExact(importPath, seenPaths) ==
  \E i \in DOMAIN seenPaths : importPath = seenPaths[i]

\* isSeen (main.go:107-114)
isSeen(importPath, seenPaths) ==
  \E i \in DOMAIN seenPaths : hasPathPrefix(importPath, seenPaths[i])

\* the directory of the package that trees holds at import path k
dirOf(trees, k) ==
  (IF trees[k].Goroot THEN GOROOT ELSE GOPATH) \o <<"src">> \o k

\* the import path of a directory below <GOPATH>/src
importPathOf(dir) == SubSeq(dir, Len(GOPATH) + 2, Len(dir))

\* os.RemoveAll(dst): what is left of the source trees and of the directories
removeAll(trees, tree, dst) ==
  [trees |-> [k \in {k \in DOMAIN trees : ~IsPrefix(dst, dirOf(trees, k))} |-> trees[k]],
   tree  |-> {d \in tree : ~IsPrefix(dst, d)}]

\* copyDep: vendor/<ImportPath> below the working directory is removed, then
\* the tree at pkg.Dir is copied there (no directory of the model is named
\* .foo, _foo or testdata); the result is [trees, tree]
copyDep(trees, tree, workdir, pkg) ==
  LET dst    == workdir \o <<"vendor">> \o pkg.ImportPath
      left   == removeAll(trees, tree, dst)
      moved(d) == dst \o SubSeq(d, Len(pkg.Dir) + 1, Len(d))
      from   == {k \in DOMAIN left.trees : IsPrefix(pkg.Dir, dirOf(left.trees, k))}
      fromOf(n) == CHOOSE k \in from : importPathOf(moved(dirOf(left.trees, k))) = n
      made   == {importPathOf(moved(dirOf(left.trees, k))) : k \in from}
  IN  [trees |-> [n \in made |-> [left.trees[fromOf(n)] EXCEPT !.Goroot = FALSE]]
                   @@ left.trees,
       tree  |-> left.tree
                   \cup {moved(d) : d \in {d \in left.tree : IsPrefix(pkg.Dir, d)}}
                   \cup {SubSeq(dst, 1, j) : j \in 1..Len(dst)}]

\* the loop of lines 56-65: a root or a dependency has an error or is
\* standard
anyFailure(cache, packages, dependencyList) ==
  \E k \in Range(packages \o dependencyList) : cache[k].Error.set \/ cache[k].Standard

\* matchPackagesInFS("./...") and loadPackage (main.go:185-198, 504-560): the
\* import paths of the packages in the working directory, in the order of
\* the walk
matchPackagesInFS(trees, workdir) ==
  SortPaths({k \in DOMAIN trees : ~trees[k].Goroot /\ inCWD(workdir, dirOf(trees, k))})

(***************************************************************************)
(* MainSpec: a run of main to its exit, and a second run of main with no   *)
(* -u flag on the disk that a successful first run of main left.  The      *)
(* first run loads the roots it is given: those of main (every package in  *)
(* the working directory) or others, as a caller of packages() may choose. *)
(* In the working directory p the vendored copy p/vendor/d may import the  *)
(* program m.                                                              *)
(***************************************************************************)
MainImports ==
  {[from |-> P, kind |-> "Imports", to |-> r] : r \in {Q, D, NOPKG, S}}
  \cup {[from |-> Q, kind |-> "Imports", to |-> r] : r \in {P, D, NOPKG}}
  \cup {[from |-> D, kind |-> "Imports", to |-> NOPKG],
        [from |-> PVD, kind |-> "Imports", to |-> CMD]}

MainRootLists == {<<P>>, <<P, PVD>>, <<P, Q>>, <<S, P>>}

mainSourceTrees(E, V) ==
  [x \in DOMAIN sourceTrees(E, V) |->
     IF x \in V
     THEN [sourceTrees(E, V)[x] EXCEPT !.Imports = importsOf(E, x, "Imports")]
     ELSE sourceTrees(E, V)[x]]

MainInit ==
  /\ \E E \in SUBSET MainImports, V \in SUBSET VendorCopies :
       /\ Cardinality(E) <= MaxImports
       /\ srcs = mainSourceTrees(E, V)
       /\ dirs = directoriesOf(mainSourceTrees(E, V))
       /\ args \in MainRootLists
       /\ \A e \in E : e.from \in V \cup importClosure(Range(args), E)
  /\ cwd \in WorkingDirs
  /\ skipVendor \in SkipLists
  /\ packageCache = <<>>
  /\ isDirCache = {}
  /\ stk = <<>>
  /\ frames = <<>>
  /\ pkgs = <<>>
  /\ set = {}
  /\ argi = 1
  /\ loads = <<>>
  /\ deps = <<>>
  /\ pc = "packages"
  /\ vin = <<>>
  /\ vout = <<>>
  /\ seen = <<>> /\ depi = 1 /\ copied = <<>> /\ dirs0 = dirs /\ run = 1

\* main.go:55-69: exit 1 if a root or a dependency has an error or is
\* standard, and else go on to the copy loop
Report ==
  /\ pc = "report"
  /\ pc' = IF anyFailure(packageCache, pkgs, deps) THEN "failed" ELSE "copy"
  /\ seen' = <<>>
  /\ depi' = 1
  /\ UNCHANGED <<srcs, dirs, cwd, skipVendor, args, packageCache, isDirCache,
                 stk, frames, pkgs, set, argi, loads, deps, vin, vout, copied,
                 dirs0, run>>

\* one turn of the loop of main.go:71-78
CopyNext ==
  /\ pc = "copy"
  /\ depi <= Len(deps)
  /\ LET pkg == packageCache[deps[depi]]
     IN  IF isSeen(pkg.ImportPath, seen)
         THEN UNCHANGED <<seen, copied, srcs, dirs>>
         ELSE /\ seen' = Append(seen, pkg.ImportPath)
              /\ copied' = Append(copied, pkg.ImportPath)
              /\ srcs' = copyDep(srcs, dirs, cwd, pkg).trees
              /\ dirs' = copyDep(srcs, dirs, cwd, pkg).tree
  /\ depi' = depi + 1
  /\ UNCHANGED <<cwd, skipVendor, args, packageCache, isDirCache, stk, frames,
                 pkgs, set, argi, loads, deps, pc, vin, vout, dirs0, run>>

\* main returns: exit 0
Exit ==
  /\ pc = "copy"
  /\ depi > Len(deps)
  /\ pc' = "done"
  /\ UNCHANGED <<srcs, dirs, cwd, skipVendor, args, packageCache, isDirCache,
                 stk, frames, pkgs, set, argi, loads, deps, vin, vout, seen,
                 depi, copied, dirs0, run>>

\* the roots of this run were those of main: every package that was in the
\* working directory when the run began
rootsWereOfMain ==
  args = SortPaths({k \in DOMAIN srcs :
                      /\ ~srcs[k].Goroot
                      /\ inCWD(cwd, dirOf(srcs, k))
                      /\ dirOf(srcs, k) \in dirs0})

\* the program is run again, with no -u flag, in the same working directory
Rerun ==
  /\ pc = "done"
  /\ run = 1
  /\ skipVendor = <<>>
  /\ rootsWereOfMain
  /\ run' = 2
  /\ args' = matchPackagesInFS(srcs, cwd)
  /\ dirs0' = dirs
  /\ packageCache' = <<>>
  /\ isDirCache' = {}
  /\ stk' = <<>> /\ frames' = <<>> /\ pkgs' = <<>> /\ set' = {} /\ argi' = 1
  /\ loads' = <<>> /\ deps' = <<>>
  /\ seen' = <<>> /\ depi' = 1 /\ copied' = <<>>
  /\ pc' = "packages"
  /\ UNCHANGED <<srcs, dirs, cwd, skipVendor, vin, vout>>

MainNext == Step \/ Finish \/ Dependencies \/ Report \/ CopyNext \/ Exit \/ Rerun

MainSpec == MainInit /\ [][MainNext]_vars

(***************************************************************************)
(* C12.  In a run in which a package that the roots lead to has a load     *)
(* error (every package of the cache is such a package), or a root or a    *)
(* dependency is standard, main does not go on to the copy loop: it exits  *)
(* with status 1 and copyDep has not been called.                          *)
(***************************************************************************)
standardListed == \E k \in Range(pkgs \o deps) : packageCache[k].Standard

C12_FailureStopsCopy ==
  (pc \in {"report", "failed", "copy", "done"} /\ (anyError \/ standardListed)) =>
    /\ pc \in {"report", "failed"}
    /\ copied = <<>>

(***************************************************************************)
(* C13.  With no -u pattern, copyDep is never called for an import path    *)
(* whose directory vendor/<path> in the working directory existed when the *)
(* run began, nor for one above or below such a directory.                 *)
(***************************************************************************)
vendoredBefore ==
  {SubSeq(d, Len(cwd) + 2, Len(d)) :
     d \in {d \in dirs0 : IsPrefix(cwd \o <<"vendor">>, d) /\ Len(d) > Len(cwd) + 1}}

C13_OnlyAddsNew ==
  skipVendor = <<>> =>
    \A i \in DOMAIN copied : \A x \in vendoredBefore :
      ~IsPrefix(copied[i], x) /\ ~IsPrefix(x, copied[i])

(***************************************************************************)
(* C14.  The run that follows a successful run with no -u pattern has no   *)
(* package with an error, does not exit with status 1, has an empty list   *)
(* of dependencies, calls copyDep for nothing and leaves the directories   *)
(* as they were.                                                           *)
(***************************************************************************)
C14_IdempotentRerun ==
  run = 2 =>
    /\ ~anyError
    /\ pc # "failed"
    /\ deps = <<>>
    /\ copied = <<>>
    /\ dirs = dirs0

(***************************************************************************)
(* ErrSpec: the loader on packages with the defects that loadDeps looks    *)
(* for.  The workspace holds p, q, d and D (an import path with the case   *)
(* fold of d); p and q may hold the two files D and d; p may import "C"    *)
(* and the local path ./d; x does not exist.                               *)
(***************************************************************************)
CapD == <<"D">>
LocalD == <<".", "d">>
CImport == <<"C">>
CollidingFiles == <<<<"D">>, <<"d">>>>

ErrImports ==
  {[from |-> P, kind |-> "Imports", to |-> r] :
     r \in {LocalD, CImport, D, CapD, Q, NOPKG}}
  \cup {[from |-> Q, kind |-> "Imports", to |-> r] : r \in {D, CapD, NOPKG}}
  \cup {[from |-> D, kind |-> "Imports", to |-> NOPKG],
        [from |-> P, kind |-> "TestImports", to |-> LocalD]}

ErrRootLists == {<<P>>, <<Q, P>>}

errSourceTrees(E, C) ==
  [x \in {P, Q, D, CapD} |->
     IF x = CapD THEN leafSource(FALSE, "d", <<>>)
     ELSE [sourceOf(E, x) EXCEPT !.Files = IF x \in C THEN CollidingFiles ELSE @]]

ErrInit ==
  /\ \E E \in SUBSET ErrImports, C \in SUBSET {P, Q} :
       /\ Cardinality(E) <= MaxImports
       /\ srcs = errSourceTrees(E, C)
       /\ dirs = directoriesOf(errSourceTrees(E, C))
       /\ args \in ErrRootLists
       /\ \A e \in E : e.from \in importClosure(Range(args), E)
  /\ cwd \in WorkingDirs
  /\ skipVendor = <<>>
  /\ packageCache = <<>>
  /\ isDirCache = {}
  /\ stk = <<>>
  /\ frames = <<>>
  /\ pkgs = <<>>
  /\ set = {}
  /\ argi = 1
  /\ loads = <<>>
  /\ deps = <<>>
  /\ pc = "packages"
  /\ vin = <<>>
  /\ vout = <<>>
  /\ seen = <<>> /\ depi = 1 /\ copied = <<>> /\ dirs0 = dirs /\ run = 1

ErrSpec == ErrInit /\ [][Next]_vars

(***************************************************************************)
(* C15.  When loadDeps has returned for a package whose metadata loaded    *)
(* without error and whose file names do not collide, every import of the  *)
(* package other than "C" and other than a local path has a cache entry.   *)
(***************************************************************************)
\* loadDeps has been called for k and has returned
loadDepsReturned(k) ==
  /\ k \in DOMAIN packageCache
  /\ ~packageCache[k].Standard
  /\ ~isLoading(k)

rawImports(k) ==
  Range(srcs[k].Imports \o srcs[k].TestImports \o srcs[k].XTestImports)

C15_SiblingsStillLoaded ==
  \A k \in DOMAIN srcs :
    (loadDepsReturned(k) /\ foldDup(srcs[k].Files).a = NoPath) =>
      \A raw \in rawImports(k) :
        (raw # CImport /\ ~IsLocalImport(raw)) =>
          resolvedImport(k, raw) \in DOMAIN packageCache

(***************************************************************************)
(* The import chains of a run: a root, then import statements, each read   *)
(* in the package that the one before resolves to.  The import stack of an *)
(* error is such a chain (loadImport pushes the path as the import         *)
(* statement has it, main.go:210).                                         *)
(***************************************************************************)
\* the imports that loadDeps hands to loadImport for the package at key k
loadableImports(k) ==
  IF k \in DOMAIN srcs /\ ~copyBuild(Import(k), k).Standard
       /\ foldDup(srcs[k].Files).a = NoPath
  THEN {raw \in rawImports(k) : raw # CImport /\ ~IsLocalImport(raw)}
  ELSE {}

\* the chains of at most n paths, each with the package it leads to
RECURSIVE chains(_)
chains(n) ==
  IF n <= 1 THEN {[stack |-> <<a>>, key |-> a] : a \in Range(args)}
  ELSE chains(n - 1)
       \cup UNION {{[stack |-> Append(w.stack, raw),
                     key |-> resolvedImport(w.key, raw)] :
                      raw \in loadableImports(w.key)} :
                    w \in {w \in chains(n - 1) : Len(w.stack) = n - 1}}

chainsTo(x) ==
  {w.stack : w \in {w \in chains(Cardinality(DOMAIN srcs) + 1) : w.key = x}}

(***************************************************************************)
(* C16.  When packages() has returned, the import stack of every error     *)
(* that is not an import-cycle error is minimal among the import chains    *)
(* from a root to the package that carries the error: no such chain is     *)
(* shorter, or of the same length and smaller in string order.             *)
(***************************************************************************)
C16_ShortestStack ==
  pc = "report" =>
    \A x \in DOMAIN packageCache :
      (packageCache[x].Error.set /\ ~packageCache[x].Error.isImportCycle) =>
        \A c \in chainsTo(x) : ~shorterThan(c, packageCache[x].Error.ImportStack)

(***************************************************************************)
(* C17.  A package whose file names hold two different names with the same *)
(* case fold carries the file name collision error once loadDeps has       *)
(* returned for it; loadDeps never reaches its loop for it, so no import   *)
(* is loaded on its behalf: its dependency list stays empty, its           *)
(* loadedDeps flag stays false, and every cache entry is a root or the     *)
(* import of a package without that defect.                                *)
(***************************************************************************)
filesCollide(k) ==
  k \in DOMAIN srcs /\ foldDup(srcs[k].Files).a # NoPath

C17_FileCollisionStopsLoadDeps ==
  /\ \A i \in DOMAIN frames : ~filesCollide(frames[i].key)
  /\ \A k \in DOMAIN packageCache :
       filesCollide(k) =>
         /\ packageCache[k].Error.set
         /\ packageCache[k].Error.Err = "case-insensitive file name collision"
         /\ packageCache[k].deps = <<>>
         /\ ~packageCache[k].loadedDeps
  /\ \A x \in DOMAIN packageCache :
       \/ x \in Range(args)
       \/ \E k \in DOMAIN packageCache :
            \E raw \in loadableImports(k) : resolvedImport(k, raw) = x

\* p, with the files D and d and an import of d, is the only root
C17_Witness ==
  /\ pc = "report"
  /\ args = <<P>>
  /\ filesCollide(P)
  /\ D \in rawImports(P)
  /\ packageCache[P].Error.Err = "case-insensitive file name collision"
  /\ DOMAIN packageCache = {P}

(***************************************************************************)
(* The returns of loadImport.  A step of the loader in which the number of *)
(* active loadDeps drops is the return of the innermost one and of the     *)
(* loadImport that called it (main.go:271-276); a step that hands          *)
(* loadImport a path and leaves the number as it is returns a cached, a    *)
(* standard or a failed package at once (main.go:223-225, 267-276).        *)
(***************************************************************************)
\* the path the next step hands to loadImport leads to the package k
nextImportIs(k) ==
  /\ CanStep
  /\ IF frames = <<>>
     THEN args[argi] \notin set /\ k = args[argi]
     ELSE LET f   == frames[Len(frames)]
              raw == f.importPaths[f.i]
          IN  raw # <<"C">> /\ ~IsLocalImport(raw) /\ k = resolvedImport(f.key, raw)

\* this step is a return of loadImport with the package k
loadImportReturns(k) ==
  \/ /\ Len(frames') < Len(frames)
     /\ k = frames[Len(frames)].key
  \/ /\ Len(frames') = Len(frames)
     /\ pc' = "packages"
     /\ nextImportIs(k)

\* after this step, a member of k's dependency list is still loading
returnedWithLoadingDep(k) ==
  \E d \in Range(packageCache'[k].deps) :
    \E i \in DOMAIN frames' : frames'[i].key = d

(***************************************************************************)
(* C18.  Whenever loadImport returns a package, no member of that          *)
(* package's dependency list is still loading.                             *)
(***************************************************************************)
C18_NoLoadingDependency ==
  [][\A k \in DOMAIN packageCache' :
       loadImportReturns(k) => ~returnedWithLoadingDep(k)]_vars

\* C18 for the packages that are not on an import cycle
C18_NoLoadingDependencyOffCycles ==
  [][\A k \in DOMAIN packageCache' :
       (loadImportReturns(k) /\ ~onCycle(k)) => ~returnedWithLoadingDep(k)]_vars

\* q, not on a cycle, has been returned to p with the dependency d, while
\* p is loading
C18_Witness ==
  /\ pc = "packages"
  /\ Len(frames) = 1
  /\ frames[1].key = P
  /\ Q \in frames[1].deps
  /\ packageCache[Q].deps = <<D>>
  /\ ~onCycle(Q)

(***************************************************************************)
(* C19.  In every step of a run, for every package in the cache: the       *)
(* loadedDeps flag, once true, stays true, and a package that loadImport   *)
(* has returned before the step has the same dependency list after it.     *)
(***************************************************************************)
\* loadImport has returned k: no loadDeps is active for k, or an active
\* loadDeps holds k in its map deps (main.go:352)
returnedBefore(k) ==
  \/ ~isLoading(k)
  \/ \E i \in DOMAIN frames : k \in frames[i].deps

C19_DepsFixedAfterFirstReturn ==
  [][\A k \in DOMAIN packageCache :
       /\ packageCache[k].loadedDeps => packageCache'[k].loadedDeps
       /\ returnedBefore(k) => packageCache'[k].deps = packageCache[k].deps]_vars

\* C19 from the return of the package's own loadDeps on: the flag stays
\* true, and nothing but the error of the package changes
C19_FixedAfterLoadDeps ==
  [][\A k \in DOMAIN packageCache :
       /\ packageCache[k].loadedDeps => packageCache'[k].loadedDeps
       /\ ~isLoading(k) =>
            [packageCache'[k] EXCEPT !.Error = packageCache[k].Error]
              = packageCache[k]]_vars

\* q, loaded as an import of p with the dependency d, has been reused as
\* the second root, which attached an error to it
C19_Witness ==
  /\ pc = "report"
  /\ args = <<P, Q>>
  /\ loads[2] = Q
  /\ packageCache[Q].loadedDeps
  /\ packageCache[Q].deps = <<D>>
  /\ packageCache[Q].Error.set
  /\ ~packageCache[D].Error.set

(***************************************************************************)
(* C20.  A package for which loadDeps has run to its end, and whose        *)
(* dependency list holds two different import paths with the same case     *)
(* fold, carries an error.                                                 *)
(***************************************************************************)
\* two different members of k's dependency list have the same case fold
depsCollide(k) ==
  \E a, b \in depsOf(k) : a # b /\ toFold(a) = toFold(b)

\* a member of k's dependency list carries an error
depHasError(k) ==
  \E d \in depsOf(k) : packageCache[d].Error.set

C20_DepCollisionReported ==
  \A k \in DOMAIN packageCache :
    (packageCache[k].loadedDeps /\ depsCollide(k)) => packageCache[k].Error.set

\* C20 for the packages none of whose dependencies carries an error
C20_DepCollisionReportedNoDepError ==
  \A k \in DOMAIN packageCache :
    (packageCache[k].loadedDeps /\ depsCollide(k) /\ ~depHasError(k)) =>
      /\ packageCache[k].Error.set
      /\ packageCache[k].Error.Err = "case-insensitive import collision"

\* p imports d and D, neither of which carries an error
C20_Witness ==
  /\ pc = "report"
  /\ args = <<P>>
  /\ packageCache[P].deps = <<CapD, D>>
  /\ ~depHasError(P)
  /\ packageCache[P].Error.Err = "case-insensitive import collision"

(***************************************************************************)
(* FoldSpec: single calls of foldDup on the lists of at most MaxList       *)
(* strings out of D, d, x and the empty string.                            *)
(***************************************************************************)
MaxList == 3

FoldStrings == {CapD, D, NOPKG, NoPath}

FoldLists == UNION {[1..n -> FoldStrings] : n \in 0..MaxList}

FoldInit ==
  /\ vin \in FoldLists
  /\ vout = <<>>
  /\ pc = "fold"
  /\ cwd = <<>> /\ skipVendor = <<>> /\ dirs = {} /\ isDirCache = {}
  /\ srcs = <<>> /\ args = <<>> /\ packageCache = <<>> /\ stk = <<>>
  /\ frames = <<>> /\ pkgs = <<>> /\ set = {} /\ argi = 1 /\ loads = <<>>
  /\ deps = <<>>
  /\ seen = <<>> /\ depi = 1 /\ copied = <<>> /\ dirs0 = dirs /\ run = 1

FoldCall ==
  /\ pc = "fold"
  /\ vout' = foldDup(vin)
  /\ pc' = "folded"
  /\ UNCHANGED <<srcs, dirs, cwd, skipVendor, args, packageCache, isDirCache,
                 stk, frames, pkgs, set, argi, loads, deps, vin>>
  /\ UNCHANGED mainVars

FoldNext == FoldCall

FoldSpec == FoldInit /\ [][FoldNext]_vars

\* the positions j of the list that follow a position with a non-empty
\* string of the same fold
foldRepeats(list) ==
  {j \in DOMAIN list :
     \E i \in 1..(j - 1) : list[i] # NoPath /\ toFold(list[i]) = toFold(list[j])}

\* the first string of the list with the fold of s
firstWithFold(list, s) ==
  list[CHOOSE i \in DOMAIN list :
         /\ toFold(list[i]) = toFold(s)
         /\ \A k \in 1..(i - 1) : toFold(list[k]) # toFold(s)]

(***************************************************************************)
(* C21.  foldDup returns a pair exactly when the list holds two different  *)
(* strings with the same fold, and the pair is then the first string of    *)
(* that fold and the first later string of that fold, smaller first.       *)
(***************************************************************************)
C21_PairIffDifferentStrings ==
  pc = "folded" =>
    /\ vout.a # NoPath <=>
         \E i, j \in DOMAIN vin : vin[i] # vin[j] /\ toFold(vin[i]) = toFold(vin[j])
    /\ vout.a # NoPath => ~PathLess(vout.b, vout.a)

\* C21 with a string that stands twice in the list counted as a pair: a
\* pair is returned exactly when some position follows one with a non-empty
\* string of the same fold; it holds the string at the first such position
\* and the first string of its fold, smaller first
C21_PairIffFoldRepeats ==
  pc = "folded" =>
    /\ vout.a # NoPath <=> foldRepeats(vin) # {}
    /\ foldRepeats(vin) # {} =>
         LET j == CHOOSE j \in foldRepeats(vin) : \A k \in foldRepeats(vin) : j <= k
         IN  /\ {vout.a, vout.b} = {vin[j], firstWithFold(vin, vin[j])}
             /\ ~PathLess(vout.b, vout.a)

\* d, x, D: the pair is D and d, the later string first
C21_Witness ==
  /\ pc = "folded"
  /\ vin = <<D, NOPKG, CapD>>
  /\ vout = [a |-> CapD, b |-> D]

(***************************************************************************)
(* CopySpec: runs of main in the working directory p on a workspace that   *)
(* holds, outside the working directory, the packages q, d, d/x and dx.    *)
(* p and q may import each of d, d/x and dx, d may import d/x, and the     *)
(* roots are p, or p and q.                                                *)
(***************************************************************************)
DSub == <<"d", "x">>
DLong == <<"dx">>

CopyImports ==
  {[from |-> P, kind |-> "Imports", to |-> r] : r \in {Q, D, DSub, DLong}}
  \cup {[from |-> Q, kind |-> "Imports", to |-> r] : r \in {D, DSub, DLong}}
  \cup {[from |-> D, kind |-> "Imports", to |-> DSub]}

CopyRootLists == {<<P>>, <<P, Q>>}

copySourceTrees(E) ==
  [x \in {P, Q, D, DSub, DLong} |->
     IF x \in {P, Q, D} THEN sourceOf(E, x)
     ELSE leafSource(FALSE, x[Len(x)], <<>>)]

CopyInit ==
  /\ \E E \in SUBSET CopyImports :
       /\ Cardinality(E) <= MaxImports
       /\ srcs = copySourceTrees(E)
       /\ dirs = directoriesOf(copySourceTrees(E))
       /\ args \in CopyRootLists
       /\ \A e \in E : e.from \in importClosure(Range(args), E)
  /\ cwd \in WorkingDirs
  /\ skipVendor = <<>>
  /\ packageCache = <<>>
  /\ isDirCache = {}
  /\ stk = <<>>
  /\ frames = <<>>
  /\ pkgs = <<>>
  /\ set = {}
  /\ argi = 1
  /\ loads = <<>>
  /\ deps = <<>>
  /\ pc = "packages"
  /\ vin = <<>>
  /\ vout = <<>>
  /\ seen = <<>> /\ depi = 1 /\ copied = <<>> /\ dirs0 = dirs /\ run = 1

CopySpec == CopyInit /\ [][MainNext]_vars

\* the import paths of list that no earlier one kept covers: a path covers
\* itself and the paths below it
RECURSIVE uncovered(_, _)
uncovered(list, kept) ==
  IF list = <<>> THEN kept
  ELSE uncovered(Tail(list),
                 IF \E i \in DOMAIN kept : IsPrefix(kept[i], list[1])
                 THEN kept ELSE Append(kept, list[1]))

(***************************************************************************)
(* C22.  In the copy loop the dependencies copied so far are those of the  *)
(* sorted list, in its order, that no dependency copied earlier in the run *)
(* equals or lies above; no import path is copied twice in a run, and no   *)
(* import path copied lies below another one copied in the same run.       *)
(***************************************************************************)
C22_CopiedOncePerPrefix ==
  pc \in {"copy", "done"} =>
    /\ copied = uncovered(SubSeq(deps, 1, depi - 1), <<>>)
    /\ \A i, j \in DOMAIN copied : i # j => ~IsPrefix(copied[i], copied[j])
    /\ \A i, j \in DOMAIN deps : i < j => ~PathLess(deps[j], deps[i])

\* p imports d, d/x and dx: d and dx are copied, d/x is not
C22_Witness ==
  /\ pc = "done"
  /\ run = 1
  /\ deps = <<D, DSub, DLong>>
  /\ copied = <<D, DLong>>
  /\ cwd \o <<"vendor">> \o DSub \in dirs

(***************************************************************************)
(* C23.  In every step of a run: a package that carries an import cycle    *)
(* error carries it after the step with the same import stack and the same *)
(* message; a package that carries another error carries an error after    *)
(* the step whose import stack is the same or a smaller one in the order   *)
(* of shorterThan.                                                         *)
(***************************************************************************)
C23_CycleErrorKept ==
  [][\A k \in DOMAIN packageCache :
       LET e  == packageCache[k].Error
           e2 == packageCache'[k].Error
       IN  /\ (e.set /\ e.isImportCycle) =>
                /\ e2.set /\ e2.isImportCycle
                /\ e2.ImportStack = e.ImportStack
                /\ e2.Err = e.Err
           /\ (e.set /\ ~e.isImportCycle) =>
                /\ e2.set
                /\ \/ e2.ImportStack = e.ImportStack
                   \/ shorterThan(e2.ImportStack, e.ImportStack)]_vars

\* d got its import cycle error on the stack p, q, d and was then reused
\* as the second root, on the shorter stack d
C23_Witness ==
  /\ pc = "report"
  /\ args = <<P, D>>
  /\ pkgs = <<P, D>>
  /\ packageCache[D].Error.isImportCycle
  /\ packageCache[D].Error.ImportStack = <<P, Q, D>>

(***************************************************************************)
(* C24.  The cache holds one Package for each resolved import path that    *)
(* was handed to go/build, stored under that path and with that path as    *)
(* its ImportPath; go/build is asked once for each path.  No step removes  *)
(* an entry or puts a new Package in its place: an entry keeps what        *)
(* go/build read, a step asks go/build for at most one path, one that has  *)
(* no entry yet, and the package that loadImport returns is the entry of   *)
(* its path.                                                               *)
(***************************************************************************)
\* what copyBuild copied in is the same after the step
metadataKept(k) ==
  /\ packageCache'[k].ImportPath = packageCache[k].ImportPath
  /\ packageCache'[k].Dir = packageCache[k].Dir
  /\ packageCache'[k].Root = packageCache[k].Root
  /\ packageCache'[k].Goroot = packageCache[k].Goroot
  /\ packageCache'[k].Name = packageCache[k].Name
  /\ packageCache'[k].Files = packageCache[k].Files
  /\ packageCache'[k].Standard = packageCache[k].Standard

C24_CacheUnique ==
  /\ [](/\ \A k \in DOMAIN packageCache : packageCache[k].ImportPath = k
        /\ Range(loads) = DOMAIN packageCache
        /\ ~hasDuplicates(loads))
  /\ [][/\ DOMAIN packageCache \subseteq DOMAIN packageCache'
        /\ \A k \in DOMAIN packageCache :
             /\ metadataKept(k)
             /\ packageCache[k].loadedDeps => packageCache'[k].loadedDeps
        /\ \/ loads' = loads /\ DOMAIN packageCache' = DOMAIN packageCache
           \/ \E k \in DOMAIN packageCache' \ DOMAIN packageCache :
                /\ loads' = Append(loads, k)
                /\ DOMAIN packageCache' = DOMAIN packageCache \cup {k}
        /\ \A k \in PossibleKeys :
             loadImportReturns(k) => k \in DOMAIN packageCache']_vars

\* p imports d, which resolves to p/vendor/d, and q; q is then asked for
\* again as the second root
C24_Witness ==
  /\ pc = "report"
  /\ args = <<P, Q>>
  /\ pkgs = <<P, Q>>
  /\ loads = <<P, PVD, Q>>
  /\ packageCache[PVD].ImportPath = PVD

(***************************************************************************)
(* C25.  For a parent in the working directory and a path that no skip     *)
(* pattern matches, with vendor/<path> at the deepest boundary k between   *)
(* the parent's directory and its root: the segments chopped off the       *)
(* directory are no more than the segments of the parent's import path,    *)
(* the call ends without a fault, and it returns the import path less the  *)
(* chopped segments, then vendor/<path>.                                   *)
(***************************************************************************)
choppedSegments(k) == Len(vin.parent.Dir) - k

C25_WellFormedAtEveryBoundary ==
  (/\ pc = "vendored" /\ parentInCWD /\ ~skipped
   /\ vendorLevels # {}
   /\ deepestLevel >= Len(vin.parent.Root)) =>
    /\ choppedSegments(deepestLevel) <= Len(vin.parent.ImportPath)
    /\ vout.fault = "none"
    /\ vout.found =
         SubSeq(vin.parent.ImportPath, 1,
                Len(vin.parent.ImportPath) - choppedSegments(deepestLevel))
           \o <<"vendor">> \o vin.path

(***************************************************************************)
(* CleanSpec: two runs of packages() and dependencies() in one process,    *)
(* as the loop of TestFindDeps makes them.  Between the runs the teardown  *)
(* clean() runs and the source files on disk are written anew; the second  *)
(* run uses the directories of the first.  p is the root and the working   *)
(* directory; p may import d and q, q may import d, and each of p and q    *)
(* may hold a vendored copy of d.                                          *)
(***************************************************************************)
CleanImports ==
  {[from |-> P, kind |-> "Imports", to |-> D],
   [from |-> P, kind |-> "Imports", to |-> Q],
   [from |-> Q, kind |-> "Imports", to |-> D]}

\* the source trees that setup() may write
CleanDisks ==
  {sourceTrees(E, V) : E \in {E \in SUBSET CleanImports :
                                \A e \in E : e.from \in importClosure({P}, E)},
                       V \in SUBSET VendorCopies}

CleanInit ==
  /\ srcs \in CleanDisks
  /\ dirs = directoriesOf(srcs)
  /\ args = <<P>>
  /\ cwd \in WorkingDirs
  /\ skipVendor = <<>>
  /\ packageCache = <<>>
  /\ isDirCache = {}
  /\ stk = <<>>
  /\ frames = <<>>
  /\ pkgs = <<>>
  /\ set = {}
  /\ argi = 1
  /\ loads = <<>>
  /\ deps = <<>>
  /\ pc = "packages"
  /\ vin = <<>>
  /\ vout = <<>>
  /\ seen = <<>> /\ depi = 1 /\ copied = <<>> /\ dirs0 = dirs /\ run = 1

\* clean() after the first run (part_000:197-203), which puts a new map in
\* packageCache and nil in skipVendor and leaves isDirCache as it is, and
\* then setup() for the second run
Clean ==
  /\ pc = "report"
  /\ run = 1
  /\ run' = 2
  /\ packageCache' = <<>>
  /\ skipVendor' = <<>>
  /\ srcs' \in CleanDisks
  /\ dirs' = directoriesOf(srcs')
  /\ dirs0' = dirs'
  /\ stk' = <<>> /\ frames' = <<>> /\ pkgs' = <<>> /\ set' = {} /\ argi' = 1
  /\ loads' = <<>> /\ deps' = <<>>
  /\ pc' = "packages"
  /\ UNCHANGED <<cwd, args, isDirCache, vin, vout, seen, depi, copied>>

CleanNext == Step \/ Finish \/ Dependencies \/ Clean

CleanSpec == CleanInit /\ [][CleanNext]_vars

\* the loader run from M to the return of packages()
RECURSIVE runLoader(_)
runLoader(M) ==
  IF M.pc # "packages" THEN M
  ELSE IF M.frames = <<>>
  THEN IF M.argi > Len(args) THEN M ELSE runLoader(step(M))
  ELSE IF M.frames[Len(M.frames)].i > Len(M.frames[Len(M.frames)].importPaths)
  THEN runLoader(finish(M))
  ELSE runLoader(step(M))

\* what packages() leaves in a process that has run nothing before
freshProcess ==
  runLoader([cache |-> <<>>, dircache |-> {}, stk |-> <<>>, frames |-> <<>>,
             pkgs |-> <<>>, set |-> {}, argi |-> 1, loads |-> <<>>,
             pc |-> "packages"])

(***************************************************************************)
(* C26.  When the second run has returned, the packages it loaded, their   *)
(* contents and the list of dependencies are those that a process which    *)
(* has run nothing before gets on the same disk.                           *)
(***************************************************************************)
C26_SecondRunAsFresh ==
  (run = 2 /\ pc = "report") =>
    /\ packageCache = freshProcess.cache
    /\ pkgs = freshProcess.pkgs
    /\ deps = dependencies(freshProcess.cache, freshProcess.pkgs, cwd)

====
